---------------------------- MODULE Spec2Model ----------------------------
(***************************************************************************)
(* Pixel-Civilization (src/main.cpp): a grid of Person records updated in  *)
(* place by four threads per tick, each thread walking one quarter of the  *)
(* row-major array, plus the main loop that times the ticks and formats    *)
(* the statistics.                                                         *)
(*                                                                         *)
(* Time.  The program keeps times as float seconds (ages are "years" of    *)
(* one second each).  The model counts clock units, Second units to the    *)
(* second, so that a frame shorter than UPDATE_TIMER_MAX can be told from  *)
(* a longer one; float rounding is not modelled.                           *)
(*                                                                         *)
(* Threads.  One action is one step of one thread.  A step is a statement  *)
(* (or a run of statements on the thread's own locals) of the lambda       *)
(* update_population_in_range.  The accesses that are not atomic in any    *)
(* build are split: a counter increment of population_stats is a load and  *)
(* a store, and the 24-byte assignment *target = p is a 16-byte store      *)
(* (is_updated .. reproduction) followed by an 8-byte store (age,          *)
(* strength).  Every behaviour of the model is a behaviour of the program; *)
(* the program has more interleavings than the model.                      *)
(***************************************************************************)
EXTENDS Integers, Sequences, FiniteSets, TLC

(***************************************************************************)
(* Bounds of the model.                                                    *)
(***************************************************************************)
\* The map is MapWidth x MapHeight cells (640 x 360 in main.cpp:189).
MapWidth == 2
MapHeight == 2
\* Clock units per second.
Second == 200
\* Iterations of the main loop that are explored.
MaxFrames == 2
\* Draws of a run that may return something else than the lowest value of
\* their range (the destination draw is not counted).
MaxLuck == 1
\* Pure-function checks: largest map side and largest strength drawn.
MaxSide == 5
MaxProbeStrength == 3

(***************************************************************************)
(* Program constants.                                                      *)
(***************************************************************************)
NumThreads == 4
DiseasedAgingFactor == 16
ChanceForDisease == 20000
MaxLengthDisease == 2
MinYearsUntilReproduce == 3
MaxYearsUntilReproduce == 12
MinStartStrength == 40
MaxStartStrength == 85
MaxAge == 85
BirthStrengthFloor == 15
BirthStrengthGain == 30
DiseasedAlpha == 160

\* const float UPDATE_TIMER_MAX = 0.01f, in clock units.
UPDATE_TIMER_MAX == Second \div 100
\* The late update runs when fps_time >= 1.f.
FpsPeriod == Second

TotalCells == MapWidth * MapHeight
Cells == 0 .. (TotalCells - 1)
Threads == 0 .. (NumThreads - 1)

Teams == {"team-red", "team-yellow", "team-violet", "team-blue"}
White == "white"

(***************************************************************************)
(* generate_random(min, max).  rand_engine is one std::mt19937 shared by   *)
(* all threads; the model draws min, min + 1 or max, and a draw above min  *)
(* costs one unit of the run's luck.                                       *)
(***************************************************************************)
generate_random(min, max) ==
    {[v |-> min, cost |-> 0]} \cup
    {[v |-> x, cost |-> 1] : x \in {min + 1, max} \cap ((min + 1) .. max)}

(***************************************************************************)
(* struct Person, and the two constant records the program writes.         *)
(***************************************************************************)
\* Map::Map: { false, false, White, false, false, 0.f, 0.f, 0 }
DefaultPerson ==
    [is_updated |-> FALSE, active |-> FALSE, color |-> White, is_male |-> FALSE,
     disease |-> 0, reproduction |-> 0, age |-> 0, strength |-> 0]

\* p = { false, false, sf::Color::White, 0.f, 0 }: the members that are not
\* named are value-initialised.
ResetPerson ==
    [is_updated |-> FALSE, active |-> FALSE, color |-> White, is_male |-> FALSE,
     disease |-> 0, reproduction |-> 0, age |-> 0, strength |-> 0]

\* create_tribe: { true, true, color, rand_sex, 0.f, rand_reproduction,
\* rand_age, rand_strength }
TribePerson(color, sex, reproduction, age, strength) ==
    [is_updated |-> TRUE, active |-> TRUE, color |-> color, is_male |-> sex,
     disease |-> 0, reproduction |-> reproduction * Second,
     age |-> age * Second, strength |-> strength]

\* The first 16 bytes of a Person and the last 8.
CopyHead(to, from) ==
    [to EXCEPT !.is_updated = from.is_updated, !.active = from.active,
               !.color = from.color, !.is_male = from.is_male,
               !.disease = from.disease, !.reproduction = from.reproduction]

CopyTail(to, from) ==
    [to EXCEPT !.age = from.age, !.strength = from.strength]

(***************************************************************************)
(* Pixels of sf::Image.                                                    *)
(***************************************************************************)
Pixel(c, a) == [c |-> c, a |-> a]
Grass == Pixel("tile-grass", 255)
Water == Pixel("tile-water", 255)

\* sf::Color pixel_color = (p.disease > 0.f ? {r, g, b, 160} : p.color)
PixelColor(p) ==
    IF p.disease > 0 THEN Pixel(p.color, DiseasedAlpha) ELSE Pixel(p.color, 255)

(***************************************************************************)
(* random_destination, for the draw r of generate_random(0, 4).            *)
(***************************************************************************)
random_destination(start_x, start_y, map_width, map_height, r) ==
    CASE r = 0 -> IF start_x < map_width THEN <<start_x + 1, start_y>>
                                         ELSE <<start_x, start_y>>
      [] r = 1 -> IF start_y < map_height THEN <<start_x, start_y + 1>>
                                          ELSE <<start_x, start_y>>
      [] r = 2 -> IF start_x > 0 THEN <<start_x - 1, start_y>>
                                 ELSE <<start_x, start_y>>
      [] r = 3 -> IF start_y > 0 THEN <<start_x, start_y - 1>>
                                 ELSE <<start_x, start_y>>
      [] OTHER -> <<start_x, start_y>>

\* Map::operator(): &population_grid[y * Width + x]
CellIndex(x, y, width) == y * width + x

\* The four (from_idx, length) pairs bound to the threads.
ThreadRange(k, total) == [from_idx |-> (total \div 4) * k, length |-> total \div 4]

(***************************************************************************)
(* PopulationStats and the four statements that record one person.         *)
(***************************************************************************)
ZeroStats == [count_total |-> 0, count_diseased |-> 0, sum_strength |-> 0, sum_age |-> 0]

\* static_cast<int>(p.age)
AgeToInt(age) == age \div Second

RecordStats(s, p) ==
    [count_total |-> s.count_total + 1,
     sum_strength |-> s.sum_strength + p.strength,
     sum_age |-> s.sum_age + AgeToInt(p.age),
     count_diseased |-> s.count_diseased + (IF p.disease > 0 THEN 1 ELSE 0)]

(***************************************************************************)
(* The fight branch: the pair (p, target) after the statement.             *)
(***************************************************************************)
\* The fight branch had it written the opponent's strength in both arms.
FightResult_Opponent(p, target) ==
    IF target.strength > p.strength
    THEN <<[p EXCEPT !.age = target.strength * Second], target>>
    ELSE <<p, [target EXCEPT !.age = p.strength * Second]>>

\* The fight branch had it compared with >= and spared the target of a draw.
FightResult_DefenderWins(p, target) ==
    IF target.strength >= p.strength
    THEN <<[p EXCEPT !.age = p.strength * Second], target>>
    ELSE <<p, [target EXCEPT !.age = p.strength * Second]>>

FightResult(p, target) ==
    IF target.strength > p.strength
    THEN <<[p EXCEPT !.age = p.strength * Second], target>>
    ELSE <<p, [target EXCEPT !.age = p.strength * Second]>>

\* if (p.age >= p.strength || p.age >= 85.f)
IsDead(p) == p.age >= p.strength * Second \/ p.age >= MaxAge * Second

\* generate_random((p.strength > 15 ? p.strength - 15 : 15), p.strength + 30)
BirthStrength(parent_strength) ==
    generate_random(IF parent_strength > BirthStrengthFloor
                    THEN parent_strength - BirthStrengthFloor
                    ELSE BirthStrengthFloor,
                    parent_strength + BirthStrengthGain)


(***************************************************************************)
(* State.                                                                  *)
(***************************************************************************)
VARIABLES
    grid,              \* map.population_grid
    image_buffer,      \* map.image_buffer
    terrain,           \* BACKGROUND_MAP_IMAGE
    texture,           \* map.texture, as last loaded from image_buffer
    population_stats,  \* the map of the current loop iteration
    th,                \* the four threads: position and locals
    main_pc,           \* where the main loop stands
    DELTA, update_timer, fps_time, tick_counter,
    fps_widget,        \* what fps_widget.setString last received
    frames,            \* loop iterations begun
    luck,              \* what is left of MaxLuck
    ghost,             \* history kept for the properties, never read by an action
    probe              \* input and result of the pure-function checks

vars == <<grid, image_buffer, terrain, texture, population_stats, th, main_pc,
          DELTA, update_timer, fps_time, tick_counter, fps_widget, frames,
          luck, ghost, probe>>

StatKeys == Teams \cup {White}
ZeroStatsMap == [c \in StatKeys |-> ZeroStats]

IdleThread ==
    [pc |-> "idle", idx |-> 0, left |-> 0, dest |-> <<0, 0>>,
     ld |-> [c |-> White, s |-> ZeroStats], pix |-> Grass]

\* A thread bound to its range, before its first cell.
BoundThread(k) ==
    LET r == ThreadRange(k, TotalCells)
    IN  IF r.length = 0
        THEN [IdleThread EXCEPT !.pc = "done"]
        ELSE [IdleThread EXCEPT !.pc = "visit", !.idx = r.from_idx, !.left = r.length]

\* ++idx_x, ++idx_y and the iterator's increment at the end of a visit.
Advance(t) ==
    IF t.left = 1
    THEN [IdleThread EXCEPT !.pc = "done"]
    ELSE [IdleThread EXCEPT !.pc = "visit", !.idx = t.idx + 1, !.left = t.left - 1]

IdxX(i) == i % MapWidth
IdxY(i) == i \div MapWidth

DestIndex(d) == CellIndex(d[1], d[2], MapWidth)
InBounds(d) == DestIndex(d) < TotalCells

\* What lies behind the end of the two arrays: an address past
\* population_grid or past the pixel array reads as anything.
OobPersons == {DefaultPerson, [DefaultPerson EXCEPT !.active = TRUE]}
OobPixels == {Grass, Water}

TargetPersons(d) == IF InBounds(d) THEN {grid[DestIndex(d)]} ELSE OobPersons
DestPixels(d) == IF InBounds(d) THEN {image_buffer[DestIndex(d)]} ELSE OobPixels

\* A store through target, or through setPixel(destination): past the end
\* of the array it does not land in the grid.
WriteCell(g, d, v) == IF InBounds(d) THEN [g EXCEPT ![DestIndex(d)] = v] ELSE g
WritePixel(img, d, v) == IF InBounds(d) THEN [img EXCEPT ![DestIndex(d)] = v] ELSE img

ActiveCells(g) == {c \in Cells : g[c].active}

(***************************************************************************)
(* Startup.  create_tribe places persons with is_updated = true on grass.  *)
(* A layout names the cells that got a person and the water cells.         *)
(***************************************************************************)
Layouts ==
    { [people |-> (0 :> TribePerson("team-red", FALSE, 1, 1, MaxStartStrength)
                   @@ 1 :> TribePerson("team-blue", TRUE, 20, 1, MinStartStrength)),
       water |-> {}],
      [people |-> (2 :> TribePerson("team-red", TRUE, 20, 1, MaxStartStrength)
                   @@ 3 :> TribePerson("team-red", TRUE, 20, 35, MinStartStrength)),
       water |-> {0}] }

DeltaChoices == {1, 5 * Second}

InitMain(lay) ==
    /\ terrain = [c \in Cells |-> IF c \in lay.water THEN Water ELSE Grass]
    /\ grid = [c \in Cells |->
                 IF c \in DOMAIN lay.people
                 THEN lay.people[c]
                 ELSE DefaultPerson]
    /\ image_buffer = [c \in Cells |->
                 IF c \in DOMAIN lay.people
                 THEN Pixel(lay.people[c].color, 255)
                 ELSE IF c \in lay.water THEN Water ELSE Grass]
    /\ texture = terrain
    /\ population_stats = ZeroStatsMap
    /\ th = [w \in Threads |-> IdleThread]
    /\ main_pc = "frame"
    /\ DELTA = 0
    /\ update_timer = 0
    /\ fps_time = 0
    /\ tick_counter = 0
    /\ fps_widget = [set |-> FALSE, fps |-> 0, stats |-> ZeroStatsMap]
    /\ frames = 0
    /\ luck = MaxLuck
    /\ ghost = [stats |-> ZeroStatsMap, snap |-> grid, births |-> 0, deaths |-> 0,
                oob |-> FALSE, losers |-> {}, visited |-> {}, died |-> {},
                ticked |-> FALSE]

NoProbe == [kind |-> "none", x |-> 0, y |-> 0, w |-> 0, h |-> 0, r |-> 0,
            out |-> <<0, 0>>, ranges |-> <<>>, p |-> DefaultPerson,
            t |-> DefaultPerson, p2 |-> DefaultPerson, t2 |-> DefaultPerson]

Init ==
    /\ \E lay \in Layouts : InitMain(lay)
    /\ probe = NoProbe

(***************************************************************************)
(* The main loop.                                                          *)
(***************************************************************************)
\* DELTA = frame_clock.restart(); the timers; a fresh population_stats.
Frame(choices) ==
    /\ main_pc = "frame"
    /\ frames < MaxFrames
    /\ \E d \in choices :
        /\ DELTA' = d
        /\ update_timer' = update_timer + d
        /\ fps_time' = fps_time + d
    /\ tick_counter' = tick_counter + 1
    /\ population_stats' = ZeroStatsMap
    /\ ghost' = [ghost EXCEPT !.stats = ZeroStatsMap, !.ticked = FALSE]
    /\ frames' = frames + 1
    /\ main_pc' = "update"
    /\ UNCHANGED <<grid, image_buffer, terrain, texture, th, fps_widget, luck, probe>>

BeginFrame == Frame(DeltaChoices)

\* if (update_timer >= UPDATE_TIMER_MAX): reset the timer and the image,
\* build the four threads and launch them.
Launch ==
    /\ main_pc = "update"
    /\ update_timer >= UPDATE_TIMER_MAX
    /\ update_timer' = 0
    /\ image_buffer' = terrain
    /\ th' = [w \in Threads |-> BoundThread(w)]
    /\ ghost' = [ghost EXCEPT !.snap = grid, !.births = 0, !.deaths = 0,
                              !.visited = {}, !.died = {}, !.ticked = TRUE]
    /\ main_pc' = "running"
    /\ UNCHANGED <<grid, terrain, texture, population_stats, DELTA, fps_time,
                   tick_counter, fps_widget, frames, luck, probe>>

SkipUpdate ==
    /\ main_pc = "update"
    /\ update_timer < UPDATE_TIMER_MAX
    /\ main_pc' = "late"
    /\ UNCHANGED <<grid, image_buffer, terrain, texture, population_stats, th,
                   DELTA, update_timer, fps_time, tick_counter, fps_widget,
                   frames, luck, ghost, probe>>

AllDone == main_pc = "running" /\ \A w \in Threads : th[w].pc = "done"

\* th->wait() on every thread, then map.texture.loadFromImage.
Join ==
    /\ AllDone
    /\ texture' = image_buffer
    /\ th' = [w \in Threads |-> IdleThread]
    /\ main_pc' = "late"
    /\ UNCHANGED <<grid, image_buffer, terrain, population_stats, DELTA,
                   update_timer, fps_time, tick_counter, fps_widget, frames,
                   luck, ghost, probe>>

\* if (fps_time >= 1.f)
LateUpdate ==
    /\ main_pc = "late"
    /\ fps_time >= FpsPeriod
    /\ fps_widget' = [set |-> TRUE, fps |-> tick_counter, stats |-> population_stats]
    /\ fps_time' = 0
    /\ tick_counter' = 0
    /\ main_pc' = "frame"
    /\ UNCHANGED <<grid, image_buffer, terrain, texture, population_stats, th,
                   DELTA, update_timer, frames, luck, ghost, probe>>

SkipLate ==
    /\ main_pc = "late"
    /\ fps_time < FpsPeriod
    /\ main_pc' = "frame"
    /\ UNCHANGED <<grid, image_buffer, terrain, texture, population_stats, th,
                   DELTA, update_timer, fps_time, tick_counter, fps_widget,
                   frames, luck, ghost, probe>>

(***************************************************************************)
(* update_population_in_range: the steps of thread w on the cell it        *)
(* visits, p = grid[th[w].idx], and on the cell it targets.                *)
(***************************************************************************)
main_vars == <<terrain, texture, main_pc, DELTA, update_timer, fps_time,
               tick_counter, fps_widget, frames, probe>>

\* Neither branch of the if is taken: the cell is not active.
SkipInactive(w) ==
    LET t == th[w] IN
    /\ t.pc = "visit"
    /\ ~grid[t.idx].active
    /\ th' = [th EXCEPT ![w] = Advance(t)]
    /\ UNCHANGED <<grid, image_buffer, population_stats, luck, ghost, main_vars>>

\* if (p.active && p.is_updated)
ClearUpdated(w) ==
    LET t == th[w]
        p == grid[t.idx]
    IN  /\ t.pc = "visit"
        /\ p.active /\ p.is_updated
        /\ grid' = [grid EXCEPT ![t.idx].is_updated = FALSE]
        /\ image_buffer' = [image_buffer EXCEPT ![t.idx] = Pixel(p.color, 255)]
        /\ th' = [th EXCEPT ![w] = Advance(t)]
        /\ UNCHANGED <<population_stats, luck, ghost, main_vars>>

\* else if (p.active): the counters of p's colour are loaded.
BeginPerson(w) ==
    LET t == th[w]
        p == grid[t.idx]
    IN  /\ t.pc = "visit"
        /\ p.active /\ ~p.is_updated
        /\ th' = [th EXCEPT ![w] = [t EXCEPT !.pc = "stats",
                      !.ld = [c |-> p.color, s |-> population_stats[p.color]]]]
        /\ ghost' = [ghost EXCEPT !.visited = @ \cup {t.idx}]
        /\ UNCHANGED <<grid, image_buffer, population_stats, luck, main_vars>>

\* The incremented counters are stored.
StoreStats(w) ==
    LET t == th[w]
        p == grid[t.idx]
    IN  /\ t.pc = "stats"
        /\ population_stats' = [population_stats EXCEPT ![t.ld.c] = RecordStats(t.ld.s, p)]
        /\ ghost' = [ghost EXCEPT !.stats[t.ld.c] = RecordStats(@, p)]
        /\ th' = [th EXCEPT ![w] = [t EXCEPT !.pc = "age", !.ld = IdleThread.ld]]
        /\ UNCHANGED <<grid, image_buffer, luck, main_vars>>

\* p.age += DELTA
Aged(p, delta) == [p EXCEPT !.age = p.age + delta]

\* The person is not dead.
AgeSurvive(w) ==
    LET t == th[w]
        p == grid[t.idx]
    IN  /\ t.pc = "age"
        /\ ~IsDead(Aged(p, DELTA))
        /\ grid' = [grid EXCEPT ![t.idx] = Aged(p, DELTA)]
        /\ th' = [th EXCEPT ![w] = [t EXCEPT !.pc = "live"]]
        /\ UNCHANGED <<image_buffer, population_stats, luck, ghost, main_vars>>

\* The person is dead: p = { false, false, White, 0.f, 0 }.  The lambda
\* goes on to the next statement.
AgeDie(w) ==
    LET t == th[w]
        p == grid[t.idx]
    IN  /\ t.pc = "age"
        /\ IsDead(Aged(p, DELTA))
        /\ grid' = [grid EXCEPT ![t.idx] = ResetPerson]
        /\ ghost' = [ghost EXCEPT !.deaths = @ + (IF p.active THEN 1 ELSE 0),
                                  !.losers = @ \ {t.idx},
                                  !.died = @ \cup {t.idx}]
        /\ th' = [th EXCEPT ![w] = [t EXCEPT !.pc = "live"]]
        /\ UNCHANGED <<image_buffer, population_stats, luck, main_vars>>

\* if (!p.is_male) p.reproduction -= DELTA
Countdown(p, delta) ==
    IF ~p.is_male THEN [p EXCEPT !.reproduction = p.reproduction - delta] ELSE p

\* Handle diseases, with c the draw of generate_random(0, ChanceForDisease)
\* and d the draw of generate_random(1, MaxLengthDisease).
HandleDisease(p, delta, c, d) ==
    IF p.disease > 0
    THEN [p EXCEPT !.age = p.age + delta * DiseasedAgingFactor,
                   !.disease = p.disease - delta]
    ELSE IF c = 1 THEN [p EXCEPT !.disease = d * Second] ELSE p

\* Reproduction counter, disease, pixel_color and destination.  A draw the
\* code does not make is left at its lowest value.
Live(w) ==
    LET t == th[w]
        p == Countdown(grid[t.idx], DELTA)
    IN  /\ t.pc = "live"
        /\ \E c \in generate_random(0, ChanceForDisease),
              d \in generate_random(1, MaxLengthDisease), r \in 0 .. 4 :
            /\ (p.disease > 0) => (c.cost = 0)
            /\ (p.disease > 0 \/ c.v # 1) => (d.cost = 0)
            /\ c.cost + d.cost <= luck
            /\ luck' = luck - (c.cost + d.cost)
            /\ grid' = [grid EXCEPT ![t.idx] = HandleDisease(p, DELTA, c.v, d.v)]
            /\ th' = [th EXCEPT ![w] = [t EXCEPT !.pc = "gate",
                      !.pix = PixelColor(HandleDisease(p, DELTA, c.v, d.v)),
                      !.dest = random_destination(IdxX(t.idx), IdxY(t.idx),
                                                  MapWidth, MapHeight, r)]]
        /\ UNCHANGED <<image_buffer, population_stats, ghost, main_vars>>

\* getPixel(destination) == tile-grass
GateGrass(w) ==
    LET t == th[w] IN
    /\ t.pc = "gate"
    /\ Grass \in DestPixels(t.dest)
    /\ th' = [th EXCEPT ![w] = [t EXCEPT !.pc = "target"]]
    /\ ghost' = [ghost EXCEPT !.oob = @ \/ ~InBounds(t.dest)]
    /\ UNCHANGED <<grid, image_buffer, population_stats, luck, main_vars>>

\* The destination is not grass: setPixel(idx_x, idx_y, pixel_color).
GateBlocked(w) ==
    LET t == th[w] IN
    /\ t.pc = "gate"
    /\ \E px \in DestPixels(t.dest) : px # Grass
    /\ image_buffer' = [image_buffer EXCEPT ![t.idx] = t.pix]
    /\ th' = [th EXCEPT ![w] = Advance(t)]
    /\ ghost' = [ghost EXCEPT !.oob = @ \/ ~InBounds(t.dest)]
    /\ UNCHANGED <<grid, population_stats, luck, main_vars>>

\* if (!(p.is_male) && p.reproduction <= 0.f)
CanReproduce(p) == ~p.is_male /\ p.reproduction <= 0

\* The branch taken on target->active, on p and on the two colours.
Branch(p, target) ==
    IF ~target.active
    THEN IF CanReproduce(p) THEN "birth_head" ELSE "walk_head"
    ELSE IF target.color = p.color THEN "infect" ELSE "fight"

\* The branch is chosen; the birth branch resets p.reproduction at once.
Resolve(w) ==
    LET t == th[w]
        p == grid[t.idx]
    IN  /\ t.pc = "target"
        /\ \E tg \in TargetPersons(t.dest),
              r \in generate_random(MinYearsUntilReproduce, MaxYearsUntilReproduce) :
            /\ (Branch(p, tg) # "birth_head") => (r.cost = 0)
            /\ r.cost <= luck
            /\ luck' = luck - r.cost
            /\ grid' = IF Branch(p, tg) = "birth_head"
                       THEN [grid EXCEPT ![t.idx].reproduction = r.v * Second]
                       ELSE grid
            /\ th' = [th EXCEPT ![w] = [t EXCEPT !.pc = Branch(p, tg)]]
            /\ ghost' = [ghost EXCEPT !.births = @ +
                            (IF Branch(p, tg) = "birth_head" /\ p.active THEN 1 ELSE 0)]
        /\ UNCHANGED <<image_buffer, population_stats, main_vars>>

\* *target = p, first store.
BirthHead(w) ==
    LET t == th[w]
        p == grid[t.idx]
    IN  /\ t.pc = "birth_head"
        /\ \E tg \in TargetPersons(t.dest) :
              grid' = WriteCell(grid, t.dest, CopyHead(tg, p))
        /\ th' = [th EXCEPT ![w] = [t EXCEPT !.pc = "birth_init"]]
        /\ UNCHANGED <<image_buffer, population_stats, luck, ghost, main_vars>>

\* The baby's members once *target = p is complete and the five
\* assignments to target-> have run; sex, reproduction, strength are the
\* three draws.
Baby(tg, p, sex, reproduction, strength) ==
    [CopyTail(tg, p) EXCEPT !.is_male = (sex # 0),
                            !.reproduction = reproduction * Second,
                            !.strength = strength,
                            !.age = 1 * Second,
                            !.is_updated = TRUE]

\* *target = p, second store; the baby's members; setPixel(destination).
BirthInit(w) ==
    LET t == th[w]
        p == grid[t.idx]
    IN  /\ t.pc = "birth_init"
        /\ \E tg \in TargetPersons(t.dest), sex \in generate_random(0, 2),
              r \in generate_random(MinYearsUntilReproduce, MaxYearsUntilReproduce),
              s \in BirthStrength(p.strength) :
            /\ sex.cost + r.cost + s.cost <= luck
            /\ luck' = luck - (sex.cost + r.cost + s.cost)
            /\ grid' = WriteCell(grid, t.dest, Baby(tg, p, sex.v, r.v, s.v))
        /\ image_buffer' = WritePixel(image_buffer, t.dest, t.pix)
        /\ th' = [th EXCEPT ![w] = Advance(t)]
        /\ UNCHANGED <<population_stats, ghost, main_vars>>

\* *target = p, first store.
WalkHead(w) ==
    LET t == th[w]
        p == grid[t.idx]
    IN  /\ t.pc = "walk_head"
        /\ \E tg \in TargetPersons(t.dest) :
              grid' = WriteCell(grid, t.dest, CopyHead(tg, p))
        /\ th' = [th EXCEPT ![w] = [t EXCEPT !.pc = "walk_tail"]]
        /\ UNCHANGED <<image_buffer, population_stats, luck, ghost, main_vars>>

\* *target = p, second store.
WalkTail(w) ==
    LET t == th[w]
        p == grid[t.idx]
    IN  /\ t.pc = "walk_tail"
        /\ \E tg \in TargetPersons(t.dest) :
              grid' = WriteCell(grid, t.dest, CopyTail(tg, p))
        /\ th' = [th EXCEPT ![w] = [t EXCEPT !.pc = "walk_off"]]
        /\ UNCHANGED <<image_buffer, population_stats, luck, ghost, main_vars>>

\* p.active = false
WalkOff(w) ==
    LET t == th[w] IN
    /\ t.pc = "walk_off"
    /\ grid' = [grid EXCEPT ![t.idx].active = FALSE]
    /\ ghost' = [ghost EXCEPT !.losers =
                    IF t.idx \in @
                    THEN (@ \ {t.idx}) \cup
                         (IF InBounds(t.dest) THEN {DestIndex(t.dest)} ELSE {})
                    ELSE @]
    /\ th' = [th EXCEPT ![w] = [t EXCEPT !.pc = "walk_flag"]]
    /\ UNCHANGED <<image_buffer, population_stats, luck, main_vars>>

\* target->is_updated = true; setPixel(destination)
WalkFlag(w) ==
    LET t == th[w] IN
    /\ t.pc = "walk_flag"
    /\ \E tg \in TargetPersons(t.dest) :
          grid' = WriteCell(grid, t.dest, [tg EXCEPT !.is_updated = TRUE])
    /\ image_buffer' = WritePixel(image_buffer, t.dest, t.pix)
    /\ th' = [th EXCEPT ![w] = Advance(t)]
    /\ UNCHANGED <<population_stats, luck, ghost, main_vars>>

\* if (p.disease > 0.f && generate_random(0, 2) == 1) target->disease = p.disease
Infected(p, target, hit) ==
    IF p.disease > 0 /\ hit = 1 THEN [target EXCEPT !.disease = p.disease] ELSE target

\* Same colour: infect, setPixel(idx_x, idx_y).
Infect(w) ==
    LET t == th[w]
        p == grid[t.idx]
    IN  /\ t.pc = "infect"
        /\ \E tg \in TargetPersons(t.dest), hit \in generate_random(0, 2) :
            /\ (p.disease <= 0) => (hit.cost = 0)
            /\ hit.cost <= luck
            /\ luck' = luck - hit.cost
            /\ grid' = WriteCell(grid, t.dest, Infected(p, tg, hit.v))
        /\ image_buffer' = [image_buffer EXCEPT ![t.idx] = t.pix]
        /\ th' = [th EXCEPT ![w] = Advance(t)]
        /\ UNCHANGED <<population_stats, ghost, main_vars>>

\* Other colour: fight, setPixel(idx_x, idx_y).
Fight(w) ==
    LET t == th[w]
        p == grid[t.idx]
    IN  /\ t.pc = "fight"
        /\ \E tg \in TargetPersons(t.dest) :
            LET r == FightResult(p, tg) IN
            /\ grid' = WriteCell([grid EXCEPT ![t.idx] = r[1]], t.dest, r[2])
            /\ ghost' = [ghost EXCEPT !.losers =
                            IF p.active /\ tg.active /\ InBounds(t.dest)
                            THEN @ \cup {IF tg.strength > p.strength
                                         THEN t.idx ELSE DestIndex(t.dest)}
                            ELSE @]
        /\ image_buffer' = [image_buffer EXCEPT ![t.idx] = t.pix]
        /\ th' = [th EXCEPT ![w] = Advance(t)]
        /\ UNCHANGED <<population_stats, luck, main_vars>>

ThreadStep(w) ==
    \/ SkipInactive(w) \/ ClearUpdated(w) \/ BeginPerson(w) \/ StoreStats(w)
    \/ AgeSurvive(w) \/ AgeDie(w) \/ Live(w) \/ GateGrass(w) \/ GateBlocked(w)
    \/ Resolve(w) \/ BirthHead(w) \/ BirthInit(w)
    \/ WalkHead(w) \/ WalkTail(w) \/ WalkOff(w) \/ WalkFlag(w)
    \/ Infect(w) \/ Fight(w)

Next ==
    \/ BeginFrame \/ Launch \/ SkipUpdate \/ Join \/ LateUpdate \/ SkipLate
    \/ \E w \in Threads : ThreadStep(w)

Spec == Init /\ [][Next]_vars

(***************************************************************************)
(* The pure functions on their own: the main loop stands still in its      *)
(* construction state and probe holds the arguments and the result.        *)
(***************************************************************************)
MainAtRest == InitMain(CHOOSE lay \in Layouts : TRUE)

rest_vars == <<grid, image_buffer, terrain, texture, population_stats, th,
               main_pc, DELTA, update_timer, fps_time, tick_counter,
               fps_widget, frames, luck, ghost>>

\* random_destination on every cell of every map up to MaxSide x MaxSide.
InitDest ==
    /\ MainAtRest
    /\ \E w \in 1 .. MaxSide, h \in 1 .. MaxSide :
       \E x \in 0 .. (w - 1), y \in 0 .. (h - 1), r \in 0 .. 4 :
          probe = [NoProbe EXCEPT !.kind = "dest_in", !.w = w, !.h = h,
                                  !.x = x, !.y = y, !.r = r]

ApplyDestination ==
    /\ probe.kind = "dest_in"
    /\ probe' = [probe EXCEPT !.kind = "dest_out",
                    !.out = random_destination(probe.x, probe.y, probe.w, probe.h, probe.r)]
    /\ UNCHANGED rest_vars

SpecDest == InitDest /\ [][ApplyDestination]_vars

\* The thread_list of a map of every size up to MaxSide x MaxSide, one
\* sf::Thread at a time.
InitRanges ==
    /\ MainAtRest
    /\ \E w \in 1 .. MaxSide, h \in 1 .. MaxSide :
          probe = [NoProbe EXCEPT !.kind = "ranges", !.w = w, !.h = h]

BindThread ==
    /\ probe.kind = "ranges"
    /\ Len(probe.ranges) < NumThreads
    /\ probe' = [probe EXCEPT !.ranges =
                    Append(@, ThreadRange(Len(@), probe.w * probe.h))]
    /\ UNCHANGED rest_vars

SpecRanges == InitRanges /\ [][BindThread]_vars

\* The fight branch on two active persons of different colours.
ProbeYears == 0 .. MaxProbeStrength

InitFight ==
    /\ MainAtRest
    /\ \E s1 \in 1 .. MaxProbeStrength, s2 \in 1 .. MaxProbeStrength,
          a1 \in ProbeYears, a2 \in ProbeYears :
          probe = [NoProbe EXCEPT !.kind = "fight_in",
                      !.p = [TribePerson("team-red", TRUE, MinYearsUntilReproduce, a1, s1)
                                EXCEPT !.is_updated = FALSE],
                      !.t = [TribePerson("team-blue", TRUE, MinYearsUntilReproduce, a2, s2)
                                EXCEPT !.is_updated = FALSE]]

ApplyFight ==
    /\ probe.kind = "fight_in"
    /\ probe' = [probe EXCEPT !.kind = "fight_out",
                    !.p2 = FightResult(probe.p, probe.t)[1],
                    !.t2 = FightResult(probe.p, probe.t)[2]]
    /\ UNCHANGED rest_vars

SpecFight == InitFight /\ [][ApplyFight]_vars

\* The infect branch on two active persons of one colour, each with up to
\* MaxLengthDisease years of disease left, in half years.
ProbeDiseases == {(k * Second) \div 2 : k \in 0 .. (2 * MaxLengthDisease)}

InitInfect ==
    /\ MainAtRest
    /\ \E dp \in ProbeDiseases, dt \in ProbeDiseases, hit \in generate_random(0, 2) :
          probe = [NoProbe EXCEPT !.kind = "infect_in", !.r = hit.v,
                      !.p = [TribePerson("team-red", TRUE, MinYearsUntilReproduce,
                                         1, MinStartStrength)
                                EXCEPT !.is_updated = FALSE, !.disease = dp],
                      !.t = [TribePerson("team-red", TRUE, MinYearsUntilReproduce,
                                         1, MinStartStrength)
                                EXCEPT !.is_updated = FALSE, !.disease = dt]]

ApplyInfect ==
    /\ probe.kind = "infect_in"
    /\ probe' = [probe EXCEPT !.kind = "infect_out", !.p2 = probe.p,
                    !.t2 = Infected(probe.p, probe.t, probe.r)]
    /\ UNCHANGED rest_vars

SpecInfect == InitInfect /\ [][ApplyInfect]_vars

\* The two branches on an inactive target: a person of either sex, with a
\* reproduction counter around 0 and a strength around the floor of 15,
\* meets a cell that holds the record the grid was created with.
ProbeParentStrengths == {1, BirthStrengthFloor, BirthStrengthFloor + 1, MinStartStrength}
ProbeCounters == {-1, 0, 1}

InitBirth ==
    /\ MainAtRest
    /\ \E sex \in BOOLEAN, c \in ProbeCounters, s \in ProbeParentStrengths,
          d \in {0, Second} :
          probe = [NoProbe EXCEPT !.kind = "birth_in",
                      !.p = [TribePerson("team-red", sex, 1, 1, s)
                                EXCEPT !.is_updated = FALSE, !.disease = d,
                                       !.reproduction = c],
                      !.t = DefaultPerson]

\* The birth branch, lines 374-382, for every draw.
ApplyBirth ==
    /\ probe.kind = "birth_in"
    /\ Branch(probe.p, probe.t) = "birth_head"
    /\ \E r \in generate_random(MinYearsUntilReproduce, MaxYearsUntilReproduce),
          sex \in generate_random(0, 2),
          r2 \in generate_random(MinYearsUntilReproduce, MaxYearsUntilReproduce),
          s \in BirthStrength(probe.p.strength) :
          LET parent == [probe.p EXCEPT !.reproduction = r.v * Second]
          IN  probe' = [probe EXCEPT !.kind = "birth_out", !.p2 = parent,
                           !.t2 = Baby(CopyHead(probe.t, parent), parent,
                                       sex.v, r2.v, s.v)]
    /\ UNCHANGED rest_vars

\* The walk branch, lines 388-390.
ApplyWalk ==
    /\ probe.kind = "birth_in"
    /\ Branch(probe.p, probe.t) = "walk_head"
    /\ probe' = [probe EXCEPT !.kind = "walk_out",
                    !.p2 = [probe.p EXCEPT !.active = FALSE],
                    !.t2 = [CopyTail(CopyHead(probe.t, probe.p), probe.p)
                               EXCEPT !.is_updated = TRUE]]
    /\ UNCHANGED rest_vars

SpecBirth == InitBirth /\ [][ApplyBirth \/ ApplyWalk]_vars

(***************************************************************************)
(* The main loop on its own: every draw of create_tribe fell on a pixel    *)
(* that is not green, the grid holds no person and a thread only walks     *)
(* through its range.  The frames are a stalled one, just under a second,  *)
(* a fast one, under UPDATE_TIMER_MAX, and the two of the full model.      *)
(***************************************************************************)
EmptyLayout == [people |-> <<>>, water |-> {0}]
LoopDeltaChoices == DeltaChoices \cup {Second - 1}

InitLoop ==
    /\ InitMain(EmptyLayout)
    /\ probe = NoProbe

LoopFrame == Frame(LoopDeltaChoices)

NextLoop ==
    \/ LoopFrame \/ Launch \/ SkipUpdate \/ Join \/ LateUpdate \/ SkipLate
    \/ \E w \in Threads : SkipInactive(w)

SpecLoop == InitLoop /\ [][NextLoop]_vars

(***************************************************************************)
(* Properties.                                                             *)
(***************************************************************************)
\* The cells a thread is in the middle of using: the cell it visits, from
\* its first read of p to the end of the visit, and the cell target points
\* to, from the read of target->active on.
TargetPcs == {"target", "birth_head", "birth_init", "walk_head", "walk_tail",
              "walk_off", "walk_flag", "infect", "fight"}
VisitPcs == TargetPcs \cup {"stats", "age", "live", "gate"}

Uses(t) ==
    (IF t.pc \in VisitPcs THEN {t.idx} ELSE {}) \cup
    (IF t.pc \in TargetPcs /\ InBounds(t.dest) THEN {DestIndex(t.dest)} ELSE {})

Users(c) == {w \in Threads : c \in Uses(th[w])}

\* C1: at the end of a tick whose threads stayed inside the arrays, the
\* number of active cells is the number at the launch, minus one per
\* failed death check, plus one per birth; a move changes nothing.
C1_AgentConservation ==
    (AllDone /\ ~ghost.oob) =>
        Cardinality(ActiveCells(grid)) =
            Cardinality(ActiveCells(ghost.snap)) - ghost.deaths + ghost.births

\* C2: a step that changes a Person record changes a cell that no other
\* thread is in the middle of using.
C2_NoSharedCell ==
    [][\A c \in Cells : (grid'[c] # grid[c]) => Cardinality(Users(c)) <= 1]_vars

\* C3: at the end of a tick every cell that is not active holds the record
\* the grid was created with.
C3_InactiveIsInert ==
    AllDone => \A c \in Cells : ~grid[c].active => grid[c] = DefaultPerson

\* C4: at the end of a tick every active cell has strength > 0 and
\* age >= 0.
C4_ActiveHasStrength ==
    AllDone => \A c \in Cells :
        grid[c].active => (grid[c].strength > 0 /\ grid[c].age >= 0)

\* C5: the destination is the start cell or a Manhattan neighbour of it
\* inside the map, a step past the right or the bottom edge stays on the
\* start cell, and the index of the destination is in the array and in the
\* destination's row.
C5_DestinationInMap ==
    (probe.kind = "dest_out") =>
        LET dx == probe.out[1] - probe.x
            dy == probe.out[2] - probe.y
            i  == CellIndex(probe.out[1], probe.out[2], probe.w)
        IN  /\ <<dx, dy>> \in {<<0, 0>>, <<1, 0>>, <<-1, 0>>, <<0, 1>>, <<0, -1>>}
            /\ probe.out[1] >= 0 /\ probe.out[1] < probe.w
            /\ probe.out[2] >= 0 /\ probe.out[2] < probe.h
            /\ i < probe.w * probe.h
            /\ i \div probe.w = probe.out[2]

\* The cells of a bound range.
RangeCells(r) == r.from_idx .. (r.from_idx + r.length - 1)

\* C6: the four ranges are pairwise disjoint, cover 0 .. width*height-1,
\* follow one another without a gap, and their lengths differ by at most 1.
C6_RangesPartition ==
    (probe.kind = "ranges" /\ Len(probe.ranges) = NumThreads) =>
        LET rs == probe.ranges IN
        /\ \A i, j \in 1 .. NumThreads :
              i # j => RangeCells(rs[i]) \cap RangeCells(rs[j]) = {}
        /\ UNION {RangeCells(rs[i]) : i \in 1 .. NumThreads}
              = 0 .. (probe.w * probe.h - 1)
        /\ \A i \in 1 .. (NumThreads - 1) :
              rs[i + 1].from_idx = rs[i].from_idx + rs[i].length
        /\ \A i, j \in 1 .. NumThreads : rs[i].length - rs[j].length <= 1

\* C7: after the threads are done every field of every group's counters is
\* the sum of the increments the threads made in the tick.
C7_NoLostIncrement ==
    AllDone => \A g \in Teams : population_stats[g] = ghost.stats[g]

\* The active persons of group g in a grid.
GroupCells(g, grd) == {c \in Cells : grd[c].active /\ grd[c].color = g}

\* C8: the persons recorded in a tick for group g are as many as the active
\* persons of g in the grid at the start of the tick, whatever their
\* is_updated.
C8_CountsEveryAgent ==
    AllDone => \A g \in Teams :
        ghost.stats[g].count_total = Cardinality(GroupCells(g, ghost.snap))

\* The fight has run on two persons of different strengths.
FoughtUnequal == probe.kind = "fight_out" /\ probe.p.strength # probe.t.strength

\* C9 as stated: the weaker has its age set to the strength of its
\* opponent, and the age of the stronger is as before.
C9_LoserGetsOpponentStrength ==
    FoughtUnequal =>
        IF probe.t.strength > probe.p.strength
        THEN probe.p2.age = probe.t.strength * Second /\ probe.t2.age = probe.t.age
        ELSE probe.t2.age = probe.p.strength * Second /\ probe.p2.age = probe.p.age

\* C9 as amended: the weaker has its age set to the strength of the acting
\* person p, which is its own strength when p is the weaker and its
\* opponent's when the target is; the age of the stronger is as before.
C9_LoserGetsActorStrength ==
    FoughtUnequal =>
        IF probe.t.strength > probe.p.strength
        THEN probe.p2.age = probe.p.strength * Second /\ probe.t2.age = probe.t.age
        ELSE probe.t2.age = probe.p.strength * Second /\ probe.p2.age = probe.p.age

\* The acting person was the weaker and the fight has run.
C9_ActorLost ==
    /\ probe.kind = "fight_out"
    /\ probe.t.strength > probe.p.strength
    /\ probe.p2.age = probe.p.strength * Second

\* C10: a person that lost a fight and has not met its death check since
\* is active and its age is not below its strength.
C10_LoserStaysDoomed ==
    \A c \in ghost.losers :
        grid[c].active /\ grid[c].age >= grid[c].strength * Second

\* An agent of the grid at the launch that the tick's aging takes to its
\* strength or to 85, and one that it does not and that is healthy.
Doomed(q) == q.active /\ IsDead(Aged(q, DELTA))
Spared(q) == q.active /\ q.disease = 0 /\ ~IsDead(Aged(q, DELTA))

\* C11: at the end of a tick the cell of a doomed agent is empty or holds
\* an agent that arrived in the tick, and a spared healthy agent is in some
\* cell, active, with its age increased by DELTA.
C11_DeathDeterminism ==
    (AllDone /\ ~ghost.oob) =>
        \A c \in Cells :
            /\ Doomed(ghost.snap[c]) => (~grid[c].active \/ grid[c].is_updated)
            /\ Spared(ghost.snap[c]) =>
                  \E d \in Cells : /\ grid[d].active
                                   /\ grid[d].color = ghost.snap[c].color
                                   /\ grid[d].age = ghost.snap[c].age + DELTA

\* C13: when the threads are done and the image is handed to the texture,
\* a pixel carries a group colour exactly if its cell is active.
C13_PixelsShowActiveCells ==
    AllDone => \A c \in Cells : (image_buffer[c].c \in Teams) <=> grid[c].active

\* C14: at the end of a tick every cell that held an agent at the launch
\* has had the statistics, aging and death check run on it.
C14_EveryAgentAdvanced ==
    AllDone => \A c \in Cells : ghost.snap[c].active => c \in ghost.visited

\* The steps of a visit that follow the death check.
AfterDeathPcs == VisitPcs \ {"stats", "age"}

\* C15: once the death check has reset the cell a thread visits, no further
\* step of that visit changes the grid, an image or the state of the
\* random engine.
C15_DeathStopsProcessing ==
    [][\A w \in Threads :
          (/\ th[w].pc \in AfterDeathPcs
           /\ th[w].idx \in ghost.died
           /\ th'[w] # th[w])
          => (grid' = grid /\ image_buffer' = image_buffer /\ luck' = luck)]_vars

\* C18: a destination that is grass in the terrain passes the gate at
\* every check.
C18_GateReadsTerrain ==
    [][\A w \in Threads :
          (/\ th[w].pc = "gate"
           /\ th'[w] # th[w]
           /\ InBounds(th[w].dest)
           /\ terrain[DestIndex(th[w].dest)] = Grass)
          => th'[w].pc = "target"]_vars

\* C19: the statistics, aging and death check never start on a cell that
\* held no agent at the launch of the tick, that is, on an agent that a
\* move or a birth placed there during the tick.
C19_ArrivalNotProcessed ==
    [][\A w \in Threads :
          (th[w].pc = "visit" /\ th'[w].pc = "stats")
          => ghost.snap[th[w].idx].active]_vars

\* C12: the infect branch does not raise the disease of a target that
\* still has disease left.
C12_DiseaseNeverRaised ==
    (probe.kind = "infect_out" /\ probe.t.disease > 0) =>
        probe.t2.disease <= probe.t.disease

\* C16 as stated: with equal strengths the age of the target is as before,
\* and the age of the target changes only if the target is strictly the
\* weaker.
C16_DrawFavoursTarget ==
    (probe.kind = "fight_out") =>
        /\ (probe.t.strength = probe.p.strength) => probe.t2.age = probe.t.age
        /\ (probe.t2.age # probe.t.age) => probe.t.strength < probe.p.strength

\* C16 as amended: with equal strengths the acting person is favoured: the
\* age of the target is set to the strength of p and p is as before; the
\* target is as before if it is strictly the stronger, and has its age set
\* to the strength of p if it is not.
C16_DrawFavoursActor ==
    (probe.kind = "fight_out") =>
        /\ (probe.t.strength = probe.p.strength) =>
              (probe.t2.age = probe.p.strength * Second /\ probe.p2 = probe.p)
        /\ (probe.t.strength > probe.p.strength) => probe.t2 = probe.t
        /\ (probe.t.strength <= probe.p.strength) =>
              probe.t2.age = probe.p.strength * Second

\* A fight between equals has run and has changed the age of the target.
C16_EqualsFought ==
    /\ probe.kind = "fight_out"
    /\ probe.t.strength = probe.p.strength
    /\ probe.t2.age # probe.t.age

\* max(a, b)
Larger(a, b) == IF a > b THEN a ELSE b

\* C17: a non-male person with reproduction <= 0 that meets an inactive
\* cell stays active with its counter reset into the configured range, and
\* the cell becomes an active person of its colour and disease, age 1,
\* is_updated, with a strength between max(p.strength - 15, 15) and
\* p.strength + 30; any other person creates no newborn: it moves.
C17_BirthRule ==
    /\ (probe.kind = "birth_out") =>
          /\ ~probe.p.is_male /\ probe.p.reproduction <= 0
          /\ probe.p2.active
          /\ probe.p2.reproduction >= MinYearsUntilReproduce * Second
          /\ probe.p2.reproduction <= MaxYearsUntilReproduce * Second
          /\ probe.t2.active /\ probe.t2.is_updated
          /\ probe.t2.color = probe.p.color
          /\ probe.t2.disease = probe.p.disease
          /\ probe.t2.age = 1 * Second
          /\ probe.t2.strength >= Larger(probe.p.strength - 15, 15)
          /\ probe.t2.strength <= probe.p.strength + 30
    /\ (probe.kind = "walk_out") =>
          /\ probe.p.is_male \/ probe.p.reproduction > 0
          /\ ~probe.p2.active
          /\ probe.t2 = [probe.p EXCEPT !.is_updated = TRUE]

\* C20: when the late update is about to refresh the text, the threads
\* have been launched and joined in this iteration of the loop.
C20_StatsFromThisTick ==
    (main_pc = "late" /\ fps_time >= FpsPeriod) => ghost.ticked

=============================================================================
